---- MODULE Spec2Model ----
(***************************************************************************)
(* The session layer of the Maestro console (frontend/src/main.ts): the    *)
(* WebSocket connection manager with its reconnect backoff, the message    *)
(* handler with the agent LEDs and the activity feed, the guidance         *)
(* channel, the start control, the project catalog and the download of a   *)
(* model with its poll loop.                                               *)
(* The agent cards of the earlier console (unnamed/part_000) are modelled   *)
(* next to it, with that console's own connection and message tasks.       *)
(*                                                                         *)
(* The page runs on one event loop: every action below is one task of that *)
(* loop (a socket event, a timer, a click, a fetch continuation) run to    *)
(* completion.                                                             *)
(***************************************************************************)
EXTENDS Integers, Sequences, FiniteSets, TLC

\* ---------------------------------------------------------------- bounds
\* The environment lets at most MaxAttempts connection losses happen in a row.
MaxAttempts == 16
\* Events that write a notice happen only while the feed shows fewer than
\* MaxLog entries (the operator clears the feed in between).
MaxLog == 3
\* The operator submits guidance only while fewer than MaxSent frames went out.
MaxSent == 2
\* WebSocket objects that can be alive at the same time.
MaxSlots == 2
\* POST /projects/open requests that can be in flight at the same time.
MaxPending == 1
\* POST /start requests that are in flight at a time.
MaxStarts == 2
\* Log frames arrive while the activity feed shows fewer entries than this.
MaxFeed == 4
\* setTimeout(loadProjectFiles, 500) timers that can be pending at the same time.
MaxFileTimers == 1

\* Poll loops that are started in a run.
MaxLoops == 1

\* ------------------------------------------------------- program constants
baseDelay == 3000
maxDelay == 30000
\* The period of the download poll and the delay of its ceiling timer, in ms.
pollInterval == 5000
pollCeiling == 300000

\* ------------------------------------------------------------ input sets
\* Strings are sequences of characters; " " is the only whitespace used.
Texts == { <<>>, <<" ">>, <<" ", "g", " ", "f", " ">> }
Objectives == { <<" ">>, <<" ", "o">> }
ProjectIds == { "p1", "p2" }
\* What POST /projects/open answers for a path: {success, project: {name, objective}}.
ServerProjects ==
    { [path |-> "p1", name |-> "n1", objective |-> <<" ", "o">>],
      [path |-> "p2", name |-> "n2", objective |-> <<>>] }

Slots == 1..MaxSlots

VARIABLES
    socks,              \* readyState of every WebSocket object, by slot ("free": no object)
    socket,             \* the global `socket`: a slot, or 0 for null
    reconnectAttempts,  \* the global `reconnectAttempts`
    timers,             \* pending setTimeout(connectWS, delay) timers: their delays
    lossRun,            \* the delays handed to setTimeout since the last open event
    backendOnline,      \* what updateBackendStatus last displayed
    log,                \* logsContainer, newest entry first
    currentProjectId,   \* the global `currentProjectId`
    guidanceInput,      \* guidanceInput.value
    sent,               \* frames the browser put on the wire, oldest first
    objectiveInput,     \* objectiveInput.value
    projectNameInput,   \* projectNameInput.value
    view,               \* the active view
    startDisabled,      \* startBtn.disabled
    startPending,       \* POST /start requests in flight
    openPending,        \* POST /projects/open requests in flight: their paths
    leds,               \* the agent LEDs by element id: the state classes of .led and
                        \* the text of .led-action
    outputModal,        \* the final-output modal: hidden or not, and outputText
    shown,              \* the arguments of the last showFinalOutput call
    fileTimers,         \* pending setTimeout(loadProjectFiles, 500) timers
    lastFrame,          \* event.data while a message event is handled
    projectsGrid,       \* the project cards shown in the catalog: their data-path
    recentProjects,     \* the recent items shown on the dashboard: their data-path
    listPending,        \* GET /projects requests in flight
    deletePending,      \* DELETE /projects/<path> requests in flight: their paths
    response,           \* what the fetch continuation that runs was answered
    downloadDisabled,   \* downloadModelBtn.disabled
    downloadHidden,     \* downloadProgress has the class hidden
    pullPending,        \* POST /ollama/pull requests in flight: their model names
    modelList,          \* the .model-name elements of modelList: their text
    loops,              \* the poll loops started: the interval, the ceiling timer and
                        \* the polls of each
    agentCards,         \* the agent cards of the earlier console (part_000): the
                        \* active mark and the text of .agent-status, by element id
    op                  \* the task that ran last: "sendGuidance", "startClick", "message"
                        \* (a frame handled), "threw" (a frame JSON.parse rejected),
                        \* "deleteConfirmed", "deleteDeclined", "deleteDone", "error" (a
                        \* failing connection), "poll" (a tick of a poll loop), or
                        \* "other"

vars == << socks, socket, reconnectAttempts, timers, lossRun, backendOnline, log,
           currentProjectId, guidanceInput, sent, objectiveInput, projectNameInput,
           view, startDisabled, startPending, openPending,
           leds, outputModal, shown, fileTimers, lastFrame,
           projectsGrid, recentProjects, listPending, deletePending, response,
           downloadDisabled, downloadHidden, pullPending, modelList, loops,
           agentCards, op >>

connVars == << socks, socket, reconnectAttempts, timers, lossRun, backendOnline >>
guideVars == << currentProjectId, guidanceInput, sent >>
startVars == << startDisabled, startPending >>
formVars == << objectiveInput, projectNameInput, view >>
catalogVars == << projectsGrid, recentProjects, listPending, deletePending >>
pollVars == << downloadDisabled, downloadHidden, pullPending, modelList, loops >>

\* ------------------------------------------------------------- helpers
Min(a, b) == IF a <= b THEN a ELSE b

\* Math.pow(base, n) for a natural n.
RECURSIVE Pow(_, _)
Pow(base, n) == IF n = 0 THEN 1 ELSE base * Pow(base, n - 1)

IsSpace(c) == c = " "

\* String.prototype.trim: drop the leading and the trailing whitespace.
RECURSIVE TrimStart(_)
TrimStart(s) ==
    IF s # <<>> /\ IsSpace(Head(s)) THEN TrimStart(Tail(s)) ELSE s

RECURSIVE TrimEnd(_)
TrimEnd(s) ==
    IF s # <<>> /\ IsSpace(s[Len(s)]) THEN TrimEnd(SubSeq(s, 1, Len(s) - 1)) ELSE s

\* A trim that strips nothing.
TrimNothing(s) == s

Trim(s) == TrimEnd(TrimStart(s))

\* JavaScript truthiness of currentProjectId (string | null | undefined).
Falsy(v) == v \in { "null", "undefined" }

\* Remove the i-th element of a sequence.
RemoveAt(s, i) == SubSeq(s, 1, i - 1) \o SubSeq(s, i + 1, Len(s))

\* The notices of socket.onclose and socket.onopen.
Disconnected == "Disconnected. Reconnecting..."
Connected == "Connected to Maestro backend"

\* A log that grows at its end.
addLogAppended(agent, text) == Append(log, [agent |-> agent, text |-> text])

\* addLog: logsContainer.prepend(entry).
addLog(agent, text) == << [agent |-> agent, text |-> text] >> \o log

\* A backoff that is never capped.
ReconnectDelayUncapped(attempts) == baseDelay * Pow(2, attempts)

\* The reconnect delay of socket.onclose.
ReconnectDelay(attempts) == Min(baseDelay * Pow(2, attempts), maxDelay)

\* A loss that counts twice.
NextAttemptsTwice(attempts) == attempts + 2

\* What the attempt counter becomes in socket.onclose.
NextAttempts(attempts) == attempts + 1

\* An open that forgets to reset the counter.
OpenAttemptsKept(attempts) == attempts

\* socket.onopen resets the counter.
OpenAttempts(attempts) == 0

\* ------------------------------------------------------ inbound frames
\* A field a frame does not carry (undefined after JSON.parse).
Absent == "absent"

Idle == << "I", "d", "l", "e" >>
TextOk == << "o", "k" >>
TextDone == << "D", "o", "n", "e" >>
TextWrote == << "W", "r", "o", "t", "e" >>
TextLong == [i \in 1..21 |-> "x"]

Upper == << "A", "B", "C", "D", "E", "F", "G", "H", "I", "J", "K", "L", "M",
            "N", "O", "P", "Q", "R", "S", "T", "U", "V", "W", "X", "Y", "Z" >>
Lower == << "a", "b", "c", "d", "e", "f", "g", "h", "i", "j", "k", "l", "m",
            "n", "o", "p", "q", "r", "s", "t", "u", "v", "w", "x", "y", "z" >>

\* String.prototype.toLowerCase.
toLowerCase(s) ==
    [i \in 1..Len(s) |->
        IF \E k \in 1..Len(Upper) : Upper[k] = s[i]
        THEN Lower[CHOOSE k \in 1..Len(Upper) : Upper[k] = s[i]]
        ELSE s[i]]

\* String.prototype.includes.
includes(s, sub) ==
    \E i \in 1..(Len(s) + 1 - Len(sub)) : SubSeq(s, i, i + Len(sub) - 1) = sub

created == << "c", "r", "e", "a", "t", "e", "d" >>
wrote == << "w", "r", "o", "t", "e" >>

\* What the wire can carry: a JSON object with the fields the console reads, or
\* text that is not JSON.
LogFrame(agent, text, status) ==
    [json |-> TRUE, type |-> "log", agent |-> agent, text |-> text, status |-> status,
     outputPath |-> Absent]
FinalFrame(text, outputPath) ==
    [json |-> TRUE, type |-> "final_output", agent |-> Absent, text |-> text,
     status |-> Absent, outputPath |-> outputPath]
OtherFrame(type) ==
    [json |-> TRUE, type |-> type, agent |-> "Developer", text |-> TextOk,
     status |-> "error", outputPath |-> "/out"]
NotJSON ==
    [json |-> FALSE, type |-> Absent, agent |-> Absent, text |-> <<>>, status |-> Absent,
     outputPath |-> Absent]

LogFrames ==
    { LogFrame("Developer", TextOk, "error"),
      LogFrame("Developer", TextLong, "waiting"),
      LogFrame("Developer", TextWrote, "complete"),
      LogFrame("Research", TextOk, Absent),
      LogFrame("Intruder", TextOk, "error") }
FinalFrames == { FinalFrame(TextDone, "/out") }
OtherFrames == { OtherFrame("progress"), OtherFrame(Absent) }
Frames == LogFrames \cup FinalFrames \cup OtherFrames \cup { NotJSON }

\* No message event is being handled.
NoFrame ==
    [json |-> TRUE, type |-> "none", agent |-> Absent, text |-> <<>>, status |-> Absent,
     outputPath |-> Absent]

\* A lookup that falls back to the first LED for a name it does not know.
agentToLedIdOrFirst(agent) ==
    CASE agent = "Research" -> "led-research"
      [] agent = "UI/UX Designer" -> "led-uiux"
      [] agent = "Developer" -> "led-developer"
      [] agent = "Security" -> "led-security"
      [] agent = "QA Tester" -> "led-qa"
      [] agent = "Documentation" -> "led-docs"
      [] agent = "Refiner" -> "led-refiner"
      [] OTHER -> "led-orchestrator"

\* agentToLedId[agent]: the LED element id of an agent, undefined for any other name.
agentToLedId(agent) ==
    CASE agent = "Orchestrator" -> "led-orchestrator"
      [] agent = "Research" -> "led-research"
      [] agent = "UI/UX Designer" -> "led-uiux"
      [] agent = "Developer" -> "led-developer"
      [] agent = "Security" -> "led-security"
      [] agent = "QA Tester" -> "led-qa"
      [] agent = "Documentation" -> "led-docs"
      [] agent = "Refiner" -> "led-refiner"
      [] OTHER -> "undefined"

KnownAgents ==
    { "Orchestrator", "Research", "UI/UX Designer", "Developer", "Security", "QA Tester",
      "Documentation", "Refiner" }

\* The .agent-led elements of the page: one per agent of the mapping, each with
\* a .led and a .led-action child.
LedElements == { agentToLedId(a) : a \in KnownAgents }

\* The LEDs as the page loads them.
InitialLeds == [id \in LedElements |-> [classes |-> { "idle" }, action |-> Idle]]

\* The class updateAgentStatus adds for a status.
StatusClass(status) ==
    CASE status = "error" -> "error"
      [] status = "waiting" -> "waiting"
      [] status = "complete" -> "idle"
      [] OTHER -> "active"

\* An LED that stays in error once it has shown one.
LedClassesSticky(classes, status) ==
    IF "error" \in classes THEN classes
    ELSE (classes \ { "idle", "active", "waiting", "error" }) \cup { StatusClass(status) }

\* An update that adds the class of the status and removes none.
LedClassesAdded(classes, status) == classes \cup { StatusClass(status) }

\* led.classList after updateAgentStatus: the four state classes removed, one added.
LedClasses(classes, status) ==
    (classes \ { "idle", "active", "waiting", "error" }) \cup { StatusClass(status) }

\* A summary cut to 18 characters whenever it is longer than that.
ActionTextShortBudget(text) ==
    IF Len(text) > 18 THEN SubSeq(text, 1, 18) \o << ".", ".", "." >> ELSE text

\* actionText.textContent after updateAgentStatus.
ActionText(text) ==
    IF Len(text) > 20 THEN SubSeq(text, 1, 18) \o << ".", ".", "." >> ELSE text

\* updateAgentStatus(agent, text, status).
updateAgentStatus(agent, text, status) ==
    LET ledId == agentToLedId(agent) IN
    /\ leds' = IF ledId # "undefined" /\ ledId \in DOMAIN leds
               THEN [leds EXCEPT ![ledId] = [classes |-> LedClasses(@.classes, status),
                                             action |-> ActionText(text)]]
               ELSE leds
    /\ fileTimers' = IF includes(toLowerCase(text), created) \/ includes(toLowerCase(text), wrote)
                     THEN fileTimers + 1
                     ELSE fileTimers

\* A reset that flips the idle class instead of setting it.
ResetLedToggling(l) ==
    [classes |-> IF "idle" \in l.classes
                 THEN (l.classes \ { "active", "waiting", "error", "idle" }) \cup { "active" }
                 ELSE (l.classes \ { "active", "waiting", "error" }) \cup { "idle" },
     action |-> Idle]

\* What resetAgents does to one .agent-led element.
ResetLed(l) ==
    [classes |-> (l.classes \ { "active", "waiting", "error" }) \cup { "idle" },
     action |-> Idle]

\* resetAgents.
resetAgents(ls) == [id \in DOMAIN ls |-> ResetLed(ls[id])]

\* ------------------------------------------- agent cards (part_000)
\* The keys of the agentCards object of the earlier console: the element ids.
CardElements == { "agent-orchestrator", "agent-uiux", "agent-dev", "agent-qa" }

\* The cards as the page loads them: no card is marked, every status is Idle.
InitialCards == [id \in CardElements |-> [active |-> FALSE, status |-> Idle]]

\* Names every object inherits from Object.prototype.
InheritedKeys == { "constructor", "toString" }

\* agentCards[agent]: the element id of an own key, "inherited" for a member
\* of Object.prototype (truthy, but no element), "undefined" otherwise.
CardOf(agent) ==
    CASE agent = "Orchestrator" -> "agent-orchestrator"
      [] agent = "UI/UX Designer" -> "agent-uiux"
      [] agent = "Developer" -> "agent-dev"
      [] agent = "QA Tester" -> "agent-qa"
      [] agent \in InheritedKeys -> "inherited"
      [] OTHER -> "undefined"

\* An update that leaves the marks of the other cards.
ClearActiveSkipped(cards) == cards

\* Object.values(agentCards).forEach(card => card?.classList.remove('active')).
ClearActive(cards) == [id \in DOMAIN cards |-> [cards[id] EXCEPT !.active = FALSE]]

\* statusEl.textContent after updateAgentStatus of the earlier console.
CardStatusText(text) ==
    IF Len(text) > 30 THEN SubSeq(text, 1, 27) \o << ".", ".", "." >> ELSE text

\* updateAgentStatus of the earlier console: the cards when it returns or
\* when card.classList.add throws for an inherited key.
updateAgentStatusCards(cards, agent, text) ==
    LET card == CardOf(agent) IN
    IF card \in DOMAIN cards
    THEN [ClearActive(cards) EXCEPT ![card] = [active |-> TRUE, status |-> CardStatusText(text)]]
    ELSE ClearActive(cards)

\* resetAgents of the earlier console.
resetAgentsCards(cards) == [id \in DOMAIN cards |-> [active |-> FALSE, status |-> Idle]]

\* A call that drops the output path.
FinalOutputArgsTextOnly(data) == [text |-> data.text, outputPath |-> Absent]

\* The arguments handleSocketMessage passes to showFinalOutput.
FinalOutputArgs(data) == [text |-> data.text, outputPath |-> data.outputPath]

\* showFinalOutput(text, _outputPath): the modal shows the text.
showFinalOutput(args) ==
    /\ shown' = args
    /\ outputModal' = [hidden |-> FALSE, text |-> args.text]

\* No fetch continuation is running.
NoResponse ==
    [of |-> "none", ok |-> TRUE, projects |-> <<>>, projectId |-> Absent, request |-> 0]

\* What a fetch was answered: ok is FALSE when the fetch was rejected, the
\* status is not a success or the body cannot be used; projects is
\* data.projects, projectId is data.projectId.
Answer(of, ok, projects, projectId) ==
    [of |-> of, ok |-> ok, projects |-> projects, projectId |-> projectId, request |-> 0]

\* The answer to a POST /start: request tells which of the requests in flight
\* it settles, 1 for the oldest; the last one is the one issued last.
StartAnswer(ok, projectId, request) ==
    [Answer("POST /start", ok, <<>>, projectId) EXCEPT !.request = request]

\* What a task that is not a message event leaves of the board.
boardUnchanged ==
    /\ UNCHANGED << leds, outputModal, shown, fileTimers, agentCards >>
    /\ lastFrame' = NoFrame

\* ------------------------------------------------------------------ Init
\* The state once the module has run: connectWS() and loadProjects() were
\* called once (lines 532 and 533), no response or event has arrived yet.
Init ==
    /\ socks = [s \in Slots |-> IF s = 1 THEN "CONNECTING" ELSE "free"]
    /\ socket = 1
    /\ reconnectAttempts = 0
    /\ timers = <<>>
    /\ lossRun = <<>>
    /\ backendOnline = FALSE
    /\ log = <<>>
    /\ currentProjectId = "null"
    /\ guidanceInput = <<>>
    /\ sent = <<>>
    /\ objectiveInput = <<>>
    /\ projectNameInput = ""
    /\ view = "dashboard"
    /\ startDisabled = FALSE
    /\ startPending = 0
    /\ openPending = <<>>
    /\ leds = InitialLeds
    /\ outputModal = [hidden |-> TRUE, text |-> <<>>]
    /\ shown = [text |-> <<>>, outputPath |-> Absent]
    /\ fileTimers = 0
    /\ lastFrame = NoFrame
    /\ projectsGrid = <<>>
    /\ recentProjects = <<>>
    /\ listPending = 1
    /\ deletePending = <<>>
    /\ response = NoResponse
    /\ downloadDisabled = FALSE
    /\ downloadHidden = TRUE
    /\ pullPending = <<>>
    /\ modelList = <<>>
    /\ loops = <<>>
    /\ agentCards = InitialCards
    /\ op = "other"

\* ------------------------------------------------- the WebSocket objects
\* The slot that `new WebSocket(WS_URL)` takes: a closed object that `socket` no
\* longer names is gone, the new object takes the lowest free slot.
Released(ss, cur) ==
    [s \in Slots |-> IF s = cur /\ ss[s] = "CLOSED" THEN "free" ELSE ss[s]]

FreeSlot(ss) == CHOOSE s \in Slots : ss[s] = "free" /\ \A t \in Slots : t < s => ss[t] # "free"

\* The browser closes object s: its readyState becomes CLOSED. An object the
\* global no longer names is unreachable from then on.
Closed(ss, s) == [ss EXCEPT ![s] = IF s = socket THEN "CLOSED" ELSE "free"]

\* WebSocket.close(): starts the closing handshake of a connecting or open
\* object, does nothing to a closing or closed one.
wsClose(ss, s) ==
    IF s # 0 /\ ss[s] \in { "CONNECTING", "OPEN" } THEN [ss EXCEPT ![s] = "CLOSING"] ELSE ss

\* WebSocket.send(data) by readyState: CONNECTING throws InvalidStateError,
\* OPEN transmits, CLOSING and CLOSED discard the data and return.
wsSend(state) ==
    CASE state = "CONNECTING" -> "throws"
      [] state = "OPEN" -> "transmits"
      [] OTHER -> "discards"

\* ---------------------------------------------------- connection manager
\* connectWS: socket = new WebSocket(WS_URL), then the four handlers are set.
connectWS ==
    LET ss == Released(socks, socket) IN
    /\ \E s \in Slots : ss[s] = "free"
    /\ socket' = FreeSlot(ss)
    /\ socks' = [ss EXCEPT ![FreeSlot(ss)] = "CONNECTING"]

\* An indicator that shows Connected whatever it is told.
updateBackendStatusStuck(online) == TRUE

\* updateBackendStatus(online): the dot is online and the text is "Connected"
\* for true, the dot is offline and the text "Disconnected" for false.
updateBackendStatus(online) == online

\* socket.onopen.
onopen ==
    /\ reconnectAttempts' = OpenAttempts(reconnectAttempts)
    /\ backendOnline' = updateBackendStatus(TRUE)
    /\ log' = addLog("System", Connected)
    /\ lossRun' = <<>>
    /\ UNCHANGED timers

\* A loss that arms two reconnect timers.
ScheduleReconnectTwice(ts, delay) == Append(Append(ts, delay), delay)

\* A loss that gives up once the backoff has reached its cap.
ScheduleReconnectCapped(ts, delay) == IF delay >= maxDelay THEN ts ELSE Append(ts, delay)

\* The timers pending after socket.onclose has run.
ScheduleReconnect(ts, delay) == Append(ts, delay)

\* socket.onclose.
onclose ==
    LET delay == ReconnectDelay(reconnectAttempts) IN
    /\ backendOnline' = updateBackendStatus(FALSE)
    /\ log' = addLog("System", Disconnected)
    /\ reconnectAttempts' = NextAttempts(reconnectAttempts)
    /\ timers' = ScheduleReconnect(timers, delay)
    /\ lossRun' = Append(lossRun, delay)

\* socket.onerror: socket?.close() on the global socket.
onerror(ss) == wsClose(ss, socket)

restUnchanged == UNCHANGED << guideVars, startVars, formVars, openPending >>

\* The open event of object s.
SocketOpen(s) ==
    /\ socks[s] = "CONNECTING"
    /\ Len(log) < MaxLog
    /\ socks' = [socks EXCEPT ![s] = "OPEN"]
    /\ UNCHANGED socket
    /\ onopen
    /\ op' = "other"
    /\ boardUnchanged
    /\ UNCHANGED pollVars
    /\ response' = NoResponse
    /\ UNCHANGED catalogVars
    /\ restUnchanged

\* The connection of object s ends without a failure (the server closes it, or a
\* closing handshake completes): readyState CLOSED, then the close event.
SocketClose(s) ==
    /\ socks[s] \in { "OPEN", "CLOSING" }
    /\ reconnectAttempts < MaxAttempts
    /\ Len(log) < MaxLog
    /\ socks' = Closed(socks, s)
    /\ UNCHANGED socket
    /\ onclose
    /\ op' = "other"
    /\ boardUnchanged
    /\ UNCHANGED pollVars
    /\ response' = NoResponse
    /\ UNCHANGED catalogVars
    /\ restUnchanged

\* An error handler that reconnects by itself, beside the close handler.
SocketFailReconnecting(s) ==
    /\ socks[s] \in { "CONNECTING", "OPEN", "CLOSING" }
    /\ reconnectAttempts < MaxAttempts
    /\ Len(log) < MaxLog
    /\ socks' = onerror(Closed(socks, s))
    /\ UNCHANGED socket
    /\ backendOnline' = FALSE
    /\ log' = addLog("System", Disconnected)
    /\ reconnectAttempts' = NextAttempts(NextAttempts(reconnectAttempts))
    /\ timers' = ScheduleReconnect(ScheduleReconnect(timers, ReconnectDelay(reconnectAttempts)),
                                   ReconnectDelay(reconnectAttempts))
    /\ lossRun' = Append(lossRun, ReconnectDelay(reconnectAttempts))
    /\ op' = "error"
    /\ boardUnchanged
    /\ UNCHANGED pollVars
    /\ response' = NoResponse
    /\ UNCHANGED catalogVars
    /\ restUnchanged

\* The connection of object s fails (refused handshake, transport error): one
\* task sets readyState CLOSED and fires the error event, then the close event.
SocketFail(s) ==
    /\ socks[s] \in { "CONNECTING", "OPEN", "CLOSING" }
    /\ reconnectAttempts < MaxAttempts
    /\ Len(log) < MaxLog
    /\ socks' = onerror(Closed(socks, s))
    /\ UNCHANGED socket
    /\ onclose
    /\ op' = "error"
    /\ boardUnchanged
    /\ UNCHANGED pollVars
    /\ response' = NoResponse
    /\ UNCHANGED catalogVars
    /\ restUnchanged

\* A reconnect timer fires: connectWS runs.
ReconnectTimer(i) ==
    /\ i \in 1..Len(timers)
    /\ timers' = RemoveAt(timers, i)
    /\ connectWS
    /\ op' = "other"
    /\ boardUnchanged
    /\ UNCHANGED pollVars
    /\ response' = NoResponse
    /\ UNCHANGED catalogVars
    /\ UNCHANGED << reconnectAttempts, lossRun, backendOnline, log >>
    /\ restUnchanged

\* A clear-feed button that also resets the agent LEDs.
ClearFeedResetting ==
    /\ log' = << [agent |-> "System", text |-> "Activity feed cleared"] >>
    /\ op' = "other"
    /\ leds' = resetAgents(leds)
    /\ lastFrame' = NoFrame
    /\ UNCHANGED << outputModal, shown, fileTimers, agentCards >>
    /\ UNCHANGED pollVars
    /\ response' = NoResponse
    /\ UNCHANGED catalogVars
    /\ UNCHANGED connVars
    /\ restUnchanged

\* The clear-feed button.
ClearFeed ==
    /\ log' = << [agent |-> "System", text |-> "Activity feed cleared"] >>
    /\ op' = "other"
    /\ boardUnchanged
    /\ UNCHANGED pollVars
    /\ response' = NoResponse
    /\ UNCHANGED catalogVars
    /\ UNCHANGED connVars
    /\ restUnchanged

\* ------------------------------------------------------ message events
\* A dispatch whose default branch is the final_output branch.
RouteDefaultFinal(type) == IF type = "log" THEN "log" ELSE "final_output"

\* The branch handleSocketMessage's switch takes on data.type.
Route(type) ==
    CASE type = "log" -> "log"
      [] type = "final_output" -> "final_output"
      [] OTHER -> "ignored"

\* handleSocketMessage(data).
handleSocketMessage(data) ==
    CASE Route(data.type) = "log" ->
            /\ log' = addLog(data.agent, data.text)
            /\ updateAgentStatus(data.agent, data.text, data.status)
            /\ UNCHANGED << outputModal, shown, startDisabled >>
      [] Route(data.type) = "final_output" ->
            /\ showFinalOutput(FinalOutputArgs(data))
            /\ leds' = resetAgents(leds)
            /\ startDisabled' = FALSE
            /\ UNCHANGED << log, fileTimers >>
      [] OTHER ->
            UNCHANGED << log, leds, fileTimers, outputModal, shown, startDisabled >>

\* A handler that closes the connection on text it cannot decode.
DecodeFailureClosing(ss, s) == wsClose(ss, s)

\* The sockets after JSON.parse has thrown out of socket.onmessage: the
\* exception ends the task, no statement after it runs.
DecodeFailure(ss, s) == ss

\* A message event on object s: socket.onmessage.
SocketMessage(s, data) ==
    /\ socks[s] = "OPEN"
    /\ (data.json /\ data.type = "log") => Len(log) < MaxFeed
    /\ (data.json /\ data.type = "log" /\ includes(toLowerCase(data.text), wrote))
          => fileTimers < MaxFileTimers
    /\ lastFrame' = data
    /\ IF data.json
       THEN /\ handleSocketMessage(data)
            /\ op' = "message"
            /\ UNCHANGED socks
       ELSE /\ socks' = DecodeFailure(socks, s)
            /\ op' = "threw"
            /\ UNCHANGED << log, leds, fileTimers, outputModal, shown, startDisabled >>
    /\ UNCHANGED << socket, reconnectAttempts, timers, lossRun, backendOnline, guideVars,
                    startPending, formVars, openPending, catalogVars, pollVars,
                    agentCards >>
    /\ response' = NoResponse

\* A setTimeout(loadProjectFiles, 500) timer fires: loadProjectFiles re-renders
\* the file explorer, which no variable of this module holds.
FileTimer ==
    /\ fileTimers > 0
    /\ fileTimers' = fileTimers - 1
    /\ op' = "other"
    /\ lastFrame' = NoFrame
    /\ UNCHANGED << connVars, log, guideVars, startVars, formVars, openPending,
                    leds, outputModal, shown, catalogVars, pollVars, agentCards >>
    /\ response' = NoResponse

\* ------------------------------------- the earlier console (part_000)
\* The delay of setTimeout(connectWS, 3000).
retryDelay == 3000

\* What the tasks of the earlier console leave alone: it has no LEDs, no
\* file list, no catalog and no model download, and these tasks touch no form.
cardsRest ==
    /\ UNCHANGED << leds, fileTimers, reconnectAttempts, lossRun >>
    /\ UNCHANGED << guideVars, startPending, formVars, openPending, catalogVars, pollVars >>
    /\ response' = NoResponse

\* socket.onopen of the earlier console.
CardsOpen(s) ==
    /\ socks[s] = "CONNECTING"
    /\ Len(log) < MaxLog
    /\ socks' = [socks EXCEPT ![s] = "OPEN"]
    /\ backendOnline' = TRUE
    /\ log' = addLog("System", "Connected to backend server.")
    /\ op' = "other"
    /\ lastFrame' = NoFrame
    /\ UNCHANGED << socket, timers, agentCards, outputModal, shown, startDisabled >>
    /\ cardsRest

\* socket.onclose of the earlier console: the close event of object s.
CardsClose(s) ==
    /\ socks[s] \in { "CONNECTING", "OPEN", "CLOSING" }
    /\ Len(log) < MaxLog
    /\ socks' = Closed(socks, s)
    /\ backendOnline' = FALSE
    /\ log' = addLog("System", "Disconnected from backend server. Retrying...")
    /\ timers' = Append(timers, retryDelay)
    /\ op' = "other"
    /\ lastFrame' = NoFrame
    /\ UNCHANGED << socket, agentCards, outputModal, shown, startDisabled >>
    /\ cardsRest

\* The timer of setTimeout(connectWS, 3000) fires.
CardsRetry(i) ==
    /\ i \in 1..Len(timers)
    /\ timers' = RemoveAt(timers, i)
    /\ connectWS
    /\ op' = "other"
    /\ lastFrame' = NoFrame
    /\ UNCHANGED << backendOnline, log, agentCards, outputModal, shown, startDisabled >>
    /\ cardsRest

\* handleSocketMessage of the earlier console, with showFinalOutput(data.text).
handleSocketMessageCards(data) ==
    CASE data.type = "log" ->
            /\ log' = addLog(data.agent, data.text)
            /\ agentCards' = updateAgentStatusCards(agentCards, data.agent, data.text)
            /\ op' = IF CardOf(data.agent) = "inherited" THEN "threw" ELSE "message"
            /\ UNCHANGED << outputModal, shown, startDisabled >>
      [] data.type = "final_output" ->
            /\ outputModal' = [hidden |-> FALSE, text |-> data.text]
            /\ shown' = [text |-> data.text, outputPath |-> Absent]
            /\ startDisabled' = FALSE
            /\ agentCards' = resetAgentsCards(agentCards)
            /\ op' = "message"
            /\ UNCHANGED log
      [] OTHER ->
            /\ op' = "message"
            /\ UNCHANGED << log, agentCards, outputModal, shown, startDisabled >>

\* socket.onmessage of the earlier console: a message event on object s.
CardsMessage(s, data) ==
    /\ socks[s] = "OPEN"
    /\ (data.json /\ data.type = "log") => Len(log) < MaxFeed
    /\ lastFrame' = data
    /\ IF data.json
       THEN handleSocketMessageCards(data)
       ELSE /\ op' = "threw"
            /\ UNCHANGED << log, agentCards, outputModal, shown, startDisabled >>
    /\ UNCHANGED << socks, socket, timers, backendOnline >>
    /\ cardsRest

\* ------------------------------------------------------ guidance channel
\* The operator edits the guidance field.
TypeGuidance(t) ==
    /\ guidanceInput # t
    /\ guidanceInput' = t
    /\ op' = "other"
    /\ boardUnchanged
    /\ UNCHANGED pollVars
    /\ response' = NoResponse
    /\ UNCHANGED catalogVars
    /\ UNCHANGED << connVars, log, currentProjectId, sent, startVars, formVars, openPending >>

\* A frame that carries the field's text as typed.
GuidanceFrameRaw(text) ==
    [type |-> "guidance", projectId |-> currentProjectId, text |-> guidanceInput, sock |-> socket]

\* The frame sendGuidance serialises.
GuidanceFrame(text) ==
    [type |-> "guidance", projectId |-> currentProjectId, text |-> text, sock |-> socket]

\* sendGuidance: the guide button, or Enter in the guidance field.
sendGuidance ==
    LET text == Trim(guidanceInput) IN
    /\ Len(sent) < MaxSent
    /\ op' = "sendGuidance"
    /\ boardUnchanged
    /\ UNCHANGED pollVars
    /\ response' = NoResponse
    /\ UNCHANGED catalogVars
    /\ UNCHANGED << connVars, log, currentProjectId, startVars, formVars, openPending >>
    /\ IF text = <<>> \/ socket = 0 \/ Falsy(currentProjectId)
       THEN UNCHANGED << sent, guidanceInput >>
       ELSE CASE wsSend(socks[socket]) = "throws" ->
                   UNCHANGED << sent, guidanceInput >>
              [] wsSend(socks[socket]) = "transmits" ->
                   /\ sent' = Append(sent, GuidanceFrame(text))
                   /\ guidanceInput' = <<>>
              [] OTHER ->
                   /\ UNCHANGED sent
                   /\ guidanceInput' = <<>>

\* -------------------------------------------------------- start control
\* The operator edits the objective field.
TypeObjective(t) ==
    /\ objectiveInput # t
    /\ objectiveInput' = t
    /\ op' = "other"
    /\ boardUnchanged
    /\ UNCHANGED pollVars
    /\ response' = NoResponse
    /\ UNCHANGED catalogVars
    /\ UNCHANGED << connVars, log, guideVars, startVars, projectNameInput, view, openPending >>

\* A check that lets every objective through.
NoObjectiveNever(objective) == FALSE

\* startOrchestration: !objective, for the trimmed field.
NoObjective(objective) == objective = <<>>

\* startOrchestration up to its await: a click on the enabled start button.
StartClick ==
    LET objective == Trim(objectiveInput) IN
    /\ ~startDisabled
    /\ startPending < MaxStarts
    /\ Len(log) < MaxLog
    /\ op' = "startClick"
    /\ boardUnchanged
    /\ UNCHANGED pollVars
    /\ response' = NoResponse
    /\ UNCHANGED catalogVars
    /\ UNCHANGED << connVars, guideVars, formVars, openPending >>
    /\ IF NoObjective(objective)
       THEN /\ log' = addLog("System", "Please enter an objective")
            /\ UNCHANGED startVars
       ELSE /\ startDisabled' = TRUE
            /\ startPending' = startPending + 1
            /\ UNCHANGED log

\* A binding that drops the projectId of the response.
BindStartedNever(projectId) == Absent

\* What currentProjectId becomes when a /start response carrying projectId is read.
BindStarted(projectId) == projectId

\* startBtn.disabled when startOrchestration ends: the try leaves the button
\* alone, the catch calls enableStartButton().
AfterStart(ok, disabled) == IF ok THEN disabled ELSE FALSE

\* startOrchestration after its await: the response carries a projectId. It
\* ends with loadProjects(): one more GET /projects in flight.
StartResponse(projectId) ==
    /\ startPending > 0
    /\ Len(log) < MaxLog
    /\ startPending' = startPending - 1
    /\ currentProjectId' = BindStarted(projectId)
    /\ log' = addLog("System", "Project started")
    /\ listPending' = listPending + 1
    /\ op' = "other"
    /\ boardUnchanged
    /\ UNCHANGED pollVars
    /\ \E request \in 1..startPending : response' = StartAnswer(TRUE, projectId, request)
    /\ startDisabled' = AfterStart(TRUE, startDisabled)
    /\ UNCHANGED << projectsGrid, recentProjects, deletePending >>
    /\ UNCHANGED << connVars, guidanceInput, sent, formVars, openPending >>

\* startOrchestration after its await: the response is JSON without a projectId;
\* the assignment stores undefined, data.projectId.substring throws, the catch runs.
StartResponseNoId ==
    /\ startPending > 0
    /\ Len(log) < MaxLog
    /\ startPending' = startPending - 1
    /\ currentProjectId' = BindStarted("undefined")
    /\ log' = addLog("System", "Error: TypeError")
    /\ startDisabled' = AfterStart(FALSE, startDisabled)
    /\ op' = "other"
    /\ boardUnchanged
    /\ UNCHANGED pollVars
    /\ \E request \in 1..startPending : response' = StartAnswer(TRUE, "undefined", request)
    /\ UNCHANGED catalogVars
    /\ UNCHANGED << connVars, guidanceInput, sent, formVars, openPending >>

\* startOrchestration after its await: fetch rejects or the body is not JSON.
StartFailure ==
    /\ startPending > 0
    /\ Len(log) < MaxLog
    /\ startPending' = startPending - 1
    /\ log' = addLog("System", "Error: fetch")
    /\ startDisabled' = AfterStart(FALSE, startDisabled)
    /\ op' = "other"
    /\ boardUnchanged
    /\ UNCHANGED pollVars
    /\ \E request \in 1..startPending : response' = StartAnswer(FALSE, Absent, request)
    /\ UNCHANGED catalogVars
    /\ UNCHANGED << connVars, guideVars, formVars, openPending >>

\* ------------------------------------------------------ project catalog
\* The project GET /projects lists under a path.
ProjectAt(path) == CHOOSE p \in ServerProjects : p.path = path

\* What GET /projects can answer: data.projects.
FullListing == << ProjectAt("p1"), ProjectAt("p2") >>
Listings == { <<>>, << ProjectAt("p1") >>, FullListing }

\* A slice that takes the whole array.
SliceUncapped(s, from, to) == s

\* Array.prototype.slice(from, to).
Slice(s, from, to) == SubSeq(s, from + 1, Min(to, Len(s)))

\* A summary GET /projects lists: its path and the day of its last update.
Summary(path, updated_at) == [path |-> path, updated_at |-> updated_at]

\* Longer answers of GET /projects: six and five projects listed from the last
\* updated to the first, six listed the other way round, two out of order.
NewestFirst ==
    << Summary("p1", 6), Summary("p2", 5), Summary("p3", 4), Summary("p4", 3),
       Summary("p5", 2), Summary("p6", 1) >>
OldestFirst == [i \in 1..Len(NewestFirst) |-> NewestFirst[Len(NewestFirst) + 1 - i]]
LongListings ==
    { <<>>, NewestFirst, SubSeq(NewestFirst, 2, 6), OldestFirst,
      << Summary("p2", 5), Summary("p1", 6) >> }

\* The data-path of the cards renderProjects and renderRecentProjects draw.
CardPaths(projects) == [i \in 1..Len(projects) |-> projects[i].path]

\* The <div class="empty-state"> placeholder.
EmptyState == "empty-state"

\* renderProjects: the children of projectsGrid.
renderProjects(projects) ==
    IF Len(projects) = 0 THEN << EmptyState >> ELSE CardPaths(projects)

\* renderRecentProjects: the children of recentProjectsContainer.
renderRecentProjects(projects) ==
    IF Len(projects) = 0 THEN << EmptyState >> ELSE CardPaths(projects)

\* The paths a click can open: the project cards and the recent items shown.
Shown == ({ projectsGrid[i] : i \in 1..Len(projectsGrid) }
            \cup { recentProjects[i] : i \in 1..Len(recentProjects) }) \ { EmptyState }

\* loadProjects after its awaits: the listing is rendered.
ListResponse(projects) ==
    /\ listPending > 0
    /\ listPending' = listPending - 1
    /\ projectsGrid' = renderProjects(projects)
    /\ recentProjects' = renderRecentProjects(Slice(projects, 0, 5))
    /\ op' = "other"
    /\ boardUnchanged
    /\ UNCHANGED pollVars
    /\ response' = Answer("GET /projects", TRUE, projects, Absent)
    /\ UNCHANGED << connVars, log, guideVars, startVars, formVars, openPending, deletePending >>

\* loadProjects after its awaits: the fetch failed or the body has no projects
\* array; the catch logs to the console only.
ListFailure ==
    /\ listPending > 0
    /\ listPending' = listPending - 1
    /\ op' = "other"
    /\ boardUnchanged
    /\ UNCHANGED pollVars
    /\ response' = Answer("GET /projects", FALSE, <<>>, Absent)
    /\ UNCHANGED << connVars, log, guideVars, startVars, formVars, openPending,
                    projectsGrid, recentProjects, deletePending >>

\* A delete handler that does not wait for the operator's answer.
ConfirmedAlways(path, answer) == path # ""

\* The delete handler's condition: path && confirm(...).
Confirmed(path, answer) == path # "" /\ answer

\* A click on the delete button of the card at position i, and the operator's
\* answer to the confirm dialog; deleteProject runs up to its await.
DeleteClick(i, answer) ==
    /\ i \in 1..Len(projectsGrid)
    /\ projectsGrid[i] # EmptyState
    /\ Len(deletePending) < MaxPending
    /\ IF Confirmed(projectsGrid[i], answer)
       THEN deletePending' = Append(deletePending, projectsGrid[i])
       ELSE UNCHANGED deletePending
    /\ op' = IF answer THEN "deleteConfirmed" ELSE "deleteDeclined"
    /\ boardUnchanged
    /\ UNCHANGED pollVars
    /\ response' = NoResponse
    /\ UNCHANGED << connVars, log, guideVars, startVars, formVars, openPending,
                    projectsGrid, recentProjects, listPending >>

\* The GET /projects requests in flight once deleteProject has called loadProjects.
Refresh(n) == n + 1

\* deleteProject after its await: the DELETE was answered, with any status.
DeleteResponse(i) ==
    /\ i \in 1..Len(deletePending)
    /\ Len(log) < MaxLog
    /\ deletePending' = RemoveAt(deletePending, i)
    /\ log' = addLog("System", "Project deleted")
    /\ listPending' = Refresh(listPending)
    /\ op' = "deleteDone"
    /\ boardUnchanged
    /\ UNCHANGED pollVars
    /\ response' \in { Answer("DELETE /projects", ok, <<>>, Absent) : ok \in BOOLEAN }
    /\ UNCHANGED << connVars, guideVars, startVars, formVars, openPending,
                    projectsGrid, recentProjects >>

\* deleteProject after its await: the fetch was rejected; the catch logs.
DeleteFailure(i) ==
    /\ i \in 1..Len(deletePending)
    /\ Len(log) < MaxLog
    /\ deletePending' = RemoveAt(deletePending, i)
    /\ log' = addLog("System", "Error deleting project: TypeError")
    /\ op' = "other"
    /\ boardUnchanged
    /\ UNCHANGED pollVars
    /\ response' = Answer("DELETE /projects", FALSE, <<>>, Absent)
    /\ UNCHANGED << connVars, guideVars, startVars, formVars, openPending,
                    projectsGrid, recentProjects, listPending >>

\* A click on a nav button: switchView(viewName); the projects view loads the
\* catalog.
SwitchView(viewName) ==
    /\ viewName = "projects" => listPending < MaxPending
    /\ view' = viewName
    /\ listPending' = IF viewName = "projects" THEN listPending + 1 ELSE listPending
    /\ op' = "other"
    /\ boardUnchanged
    /\ UNCHANGED pollVars
    /\ response' = NoResponse
    /\ UNCHANGED << connVars, log, guideVars, startVars, objectiveInput, projectNameInput,
                    openPending, projectsGrid, recentProjects, deletePending >>

\* ------------------------------------------------------- project catalog
\* An openProject that binds the opened project to the session.
BindOpenedPath(cur, project) == project.path

\* What currentProjectId is after openProject has handled a successful response.
BindOpened(cur, project) == cur

\* openProject up to its await: a click on a project card or a recent item.
OpenProjectClick(path) ==
    /\ path \in Shown
    /\ Len(openPending) < MaxPending
    /\ openPending' = Append(openPending, path)
    /\ op' = "other"
    /\ boardUnchanged
    /\ UNCHANGED pollVars
    /\ response' = NoResponse
    /\ UNCHANGED catalogVars
    /\ UNCHANGED << connVars, log, guideVars, startVars, formVars >>

\* openProject after its await: {success: true, project}.
OpenProjectResponse(i) ==
    /\ i \in 1..Len(openPending)
    /\ Len(log) < MaxLog
    /\ \E project \in ServerProjects :
        /\ project.path = openPending[i]
        /\ projectNameInput' = project.name
        /\ objectiveInput' = project.objective
        /\ currentProjectId' = BindOpened(currentProjectId, project)
        /\ log' = addLog("System", "Opened project: " \o project.name)
    /\ view' = "dashboard"
    /\ openPending' = RemoveAt(openPending, i)
    /\ op' = "other"
    /\ boardUnchanged
    /\ UNCHANGED pollVars
    /\ response' = Answer("POST /projects/open", TRUE, <<>>, Absent)
    /\ UNCHANGED catalogVars
    /\ UNCHANGED << connVars, guidanceInput, sent, startVars >>

\* openProject after its await: success is false, or the fetch failed.
OpenProjectFailure(i) ==
    /\ i \in 1..Len(openPending)
    /\ openPending' = RemoveAt(openPending, i)
    /\ op' = "other"
    /\ boardUnchanged
    /\ UNCHANGED pollVars
    /\ response' = Answer("POST /projects/open", FALSE, <<>>, Absent)
    /\ UNCHANGED catalogVars
    /\ UNCHANGED << connVars, log, guideVars, startVars, formVars >>

\* ------------------------------------------------------- model download
Colon == ":"

\* modelToDownload.value: nothing, or the model "m:1".
ModelNames == { <<>>, << "m", Colon, "1" >> }

\* What GET /ollama/models lists: another model, or that one and the model.
ModelListings ==
    { << << "n", Colon, "1" >> >>, << << "n", Colon, "1" >>, << "m", Colon, "1" >> >> }

\* modelName.split(':')[0].
SplitFirst(name) ==
    IF \E i \in 1..Len(name) : name[i] = Colon
    THEN SubSeq(name, 1, (CHOOSE i \in 1..Len(name) :
                              name[i] = Colon /\ \A j \in 1..(i - 1) : name[j] # Colon) - 1)
    ELSE name

\* Array.from(models).some(m => m.textContent.includes(modelName.split(':')[0])).
Downloaded(names, modelName) ==
    \E k \in 1..Len(names) : includes(names[k], SplitFirst(modelName))

\* A poll loop as setInterval and setTimeout start it: elapsed is the time since
\* then, nextPoll the time the interval is due next, interval and ceiling tell
\* whether the interval and the ceiling timer are still active, polls counts the
\* interval callbacks that ran, inflight those that wait for loadOllamaModels.
StartLoop(modelName) ==
    [model |-> modelName, elapsed |-> 0, nextPoll |-> pollInterval, interval |-> TRUE,
     ceiling |-> TRUE, polls |-> 0, inflight |-> 0]

\* No task of the download section changes the rest of the console.
consoleUnchanged ==
    /\ boardUnchanged
    /\ UNCHANGED << connVars, guideVars, startVars, formVars, openPending, catalogVars >>

\* A click on the enabled download button: the handler up to its await.
DownloadClick(modelName) ==
    /\ ~downloadDisabled
    /\ Len(loops) + Len(pullPending) < MaxLoops
    /\ IF modelName = <<>>
       THEN UNCHANGED << downloadHidden, downloadDisabled, pullPending >>
       ELSE /\ downloadHidden' = FALSE
            /\ downloadDisabled' = TRUE
            /\ pullPending' = Append(pullPending, modelName)
    /\ response' = NoResponse
    /\ op' = "other"
    /\ UNCHANGED << log, modelList, loops >>
    /\ consoleUnchanged

\* The handler after its awaits: POST /ollama/pull was answered with
\* data.success; a success starts the poll loop and its ceiling timer.
PullResponse(i, success) ==
    /\ i \in 1..Len(pullPending)
    /\ Len(log) < MaxLog
    /\ pullPending' = RemoveAt(pullPending, i)
    /\ IF success
       THEN /\ log' = addLog("System", "Started downloading")
            /\ loops' = Append(loops, StartLoop(pullPending[i]))
            /\ UNCHANGED downloadHidden
       ELSE /\ log' = addLog("System", "Failed to download")
            /\ downloadHidden' = TRUE
            /\ UNCHANGED loops
    /\ downloadDisabled' = FALSE
    /\ response' = Answer("POST /ollama/pull", success, <<>>, Absent)
    /\ op' = "other"
    /\ UNCHANGED modelList
    /\ consoleUnchanged

\* The handler after its awaits: the fetch was rejected; the catch and the
\* finally run.
PullFailure(i) ==
    /\ i \in 1..Len(pullPending)
    /\ Len(log) < MaxLog
    /\ pullPending' = RemoveAt(pullPending, i)
    /\ log' = addLog("System", "Error downloading model")
    /\ downloadHidden' = TRUE
    /\ downloadDisabled' = FALSE
    /\ response' = Answer("POST /ollama/pull", FALSE, <<>>, Absent)
    /\ op' = "other"
    /\ UNCHANGED << modelList, loops >>
    /\ consoleUnchanged

\* A timer of loop l is due: the interval, or the ceiling timer.
PollDue(l) == loops[l].interval /\ loops[l].elapsed >= loops[l].nextPoll
CeilingDue(l) == loops[l].ceiling /\ loops[l].elapsed >= pollCeiling

\* The interval of loop l fires: the callback runs up to its await. The
\* listing a poll asked for arrives before the next poll of its loop.
PollTick(l) ==
    /\ l \in 1..Len(loops)
    /\ PollDue(l)
    /\ loops[l].inflight = 0
    /\ loops' = [loops EXCEPT ![l] = [@ EXCEPT !.polls = @ + 1, !.inflight = @ + 1,
                                                !.nextPoll = @ + pollInterval]]
    /\ response' = NoResponse
    /\ op' = "poll"
    /\ UNCHANGED << log, modelList, downloadHidden, downloadDisabled, pullPending >>
    /\ consoleUnchanged

\* clearInterval(checkInterval).
ClearInterval(loop) == [loop EXCEPT !.interval = FALSE]

\* The callback of loop l after its await: loadOllamaModels has rendered what
\* GET /ollama/models listed (a placeholder without names when the request
\* failed), and the names are searched for the model.
PollAnswer(l, names) ==
    /\ l \in 1..Len(loops)
    /\ loops[l].inflight > 0
    /\ modelList' = names
    /\ IF Downloaded(names, loops[l].model)
       THEN /\ Len(log) < MaxLog
            /\ loops' = [loops EXCEPT ![l] = [ClearInterval(@) EXCEPT !.inflight = @ - 1]]
            /\ downloadHidden' = TRUE
            /\ log' = addLog("System", "Model downloaded successfully!")
       ELSE /\ loops' = [loops EXCEPT ![l] = [@ EXCEPT !.inflight = @ - 1]]
            /\ UNCHANGED << downloadHidden, log >>
    /\ response' = Answer("GET /ollama/models", TRUE, <<>>, Absent)
    /\ op' = "other"
    /\ UNCHANGED << downloadDisabled, pullPending >>
    /\ consoleUnchanged

\* A ceiling timer that fires without clearing the interval.
StopLoopForgotten(loop) == [loop EXCEPT !.ceiling = FALSE]

\* The ceiling timer's callback: () => clearInterval(checkInterval).
StopLoop(loop) == [ClearInterval(loop) EXCEPT !.ceiling = FALSE]

\* The ceiling timer of loop l fires.
CeilingTimer(l) ==
    /\ l \in 1..Len(loops)
    /\ CeilingDue(l)
    /\ loops' = [loops EXCEPT ![l] = StopLoop(@)]
    /\ response' = NoResponse
    /\ op' = "other"
    /\ UNCHANGED << log, modelList, downloadHidden, downloadDisabled, pullPending >>
    /\ consoleUnchanged

\* The time up to which the clock is followed.
Horizon == pollCeiling + 2 * pollInterval

\* pollInterval ms pass: no timer is due (a due timer fires first), and a timer
\* is still active.
TimePasses ==
    /\ \A l \in 1..Len(loops) : ~PollDue(l) /\ ~CeilingDue(l)
    /\ \E l \in 1..Len(loops) : loops[l].interval \/ loops[l].ceiling
    /\ \A l \in 1..Len(loops) : loops[l].elapsed < Horizon
    /\ loops' = [l \in 1..Len(loops) |-> [loops[l] EXCEPT !.elapsed = @ + pollInterval]]
    /\ response' = NoResponse
    /\ op' = "other"
    /\ UNCHANGED << log, modelList, downloadHidden, downloadDisabled, pullPending >>
    /\ consoleUnchanged

\* ------------------------------------------------------- specifications
ConnNext ==
    \/ \E s \in Slots : SocketOpen(s)
    \/ \E s \in Slots : SocketClose(s)
    \/ \E s \in Slots : SocketFail(s)
    \/ \E i \in 1..MaxSlots : ReconnectTimer(i)
    \/ ClearFeed

\* The connection manager alone, with the feed's clear button.
Next == ConnNext

Spec == Init /\ [][Next]_vars

\* The session an operator drives: the connection events, the guidance channel,
\* the start control and the opening of projects.
SessionNext ==
    \/ \E s \in Slots : SocketOpen(s)
    \/ \E s \in Slots : SocketClose(s)
    \/ \E s \in Slots : SocketFail(s)
    \/ \E i \in 1..MaxSlots : ReconnectTimer(i)
    \/ \E t \in Texts : TypeGuidance(t)
    \/ sendGuidance
    \/ \E t \in Objectives : TypeObjective(t)
    \/ StartClick
    \/ \E p \in ProjectIds : StartResponse(p)
    \/ StartResponseNoId
    \/ StartFailure

SpecSession == Init /\ [][SessionNext]_vars

\* The console while frames arrive: the connection, the message events, the
\* file-refresh timers and the start control.
FramesNext ==
    \/ \E s \in Slots : SocketOpen(s)
    \/ \E s \in Slots : SocketClose(s)
    \/ \E i \in 1..MaxSlots : ReconnectTimer(i)
    \/ \E s \in Slots, data \in Frames : SocketMessage(s, data)
    \/ FileTimer
    \/ \E t \in Objectives : TypeObjective(t)
    \/ (StartClick /\ startPending < MaxPending)

SpecFrames == Init /\ [][FramesNext]_vars

\* The catalog: the listing, opening and deleting projects, and the start of a
\* run, which ends with a listing.
CatalogNext ==
    \/ \E projects \in Listings : ListResponse(projects)
    \/ ListFailure
    \/ \E path \in ProjectIds : OpenProjectClick(path)
    \/ \E i \in 1..MaxPending : OpenProjectResponse(i)
    \/ \E i \in 1..MaxPending : OpenProjectFailure(i)
    \/ \E i \in 1..Len(FullListing), answer \in BOOLEAN : DeleteClick(i, answer)
    \/ \E i \in 1..MaxPending : DeleteResponse(i)
    \/ \E i \in 1..MaxPending : DeleteFailure(i)
    \/ StartClick
    \/ \E p \in ProjectIds : StartResponse(p)

SpecCatalog == Init /\ [][CatalogNext]_vars

Views == { "dashboard", "projects" }

\* The catalog under longer listings: the operator moves between the views
\* and deletes the first card, the listings arrive or fail.
ListingNext ==
    \/ \E viewName \in Views : SwitchView(viewName)
    \/ \E projects \in LongListings : ListResponse(projects)
    \/ ListFailure
    \/ \E answer \in BOOLEAN : DeleteClick(1, answer)
    \/ \E i \in 1..MaxPending : DeleteResponse(i)
    \/ \E i \in 1..MaxPending : DeleteFailure(i)

SpecListing == Init /\ [][ListingNext]_vars

\* The console while the operator opens projects from a listed catalog, starts
\* runs and submits guidance on a connection that stays up.
OpenNext ==
    \/ \E s \in Slots : SocketOpen(s)
    \/ ListResponse(FullListing)
    \/ \E path \in ProjectIds : OpenProjectClick(path)
    \/ \E i \in 1..MaxPending : OpenProjectResponse(i)
    \/ \E i \in 1..MaxPending : OpenProjectFailure(i)
    \/ StartClick
    \/ \E p \in ProjectIds : StartResponse(p)
    \/ \E t \in Texts : TypeGuidance(t)
    \/ sendGuidance

SpecOpen == Init /\ [][OpenNext]_vars

\* The frames of the runs in which every kind of task takes part.
OpsFrames ==
    { LogFrame("Developer", TextOk, "error"),
      LogFrame("Research", TextOk, Absent),
      FinalFrame(TextDone, "/out") }

\* The step puts no entry in the feed that the feed already shows.
NoRepeat ==
    \/ log' = log
    \/ \A i \in 1..Len(log) : log[i].agent # log'[1].agent \/ log[i].text # log'[1].text

\* Every kind of task of the console in one run: frames, the connection, the
\* feed, guidance, the start of a run and the catalog. The run is a short
\* one: no entry is shown twice in the feed (so the feed is cleared at most
\* once), the operator sends one guidance frame, opens one project, and has
\* one request of a kind in flight at a time.
OpsNext ==
    \/ \E s \in Slots : SocketOpen(s) /\ NoRepeat
    \/ \E s \in Slots : SocketFail(s) /\ NoRepeat
    \/ \E i \in 1..MaxSlots : ReconnectTimer(i)
    \/ \E s \in Slots, data \in OpsFrames : SocketMessage(s, data) /\ NoRepeat
    \/ (ClearFeed /\ NoRepeat)
    \/ (TypeGuidance(<< " ", "g", " ", "f", " " >>) /\ sent = <<>>)
    \/ (sendGuidance /\ sent = <<>>)
    \/ (StartClick /\ startPending = 0 /\ NoRepeat)
    \/ (StartResponse("p1") /\ NoRepeat)
    \/ (ListResponse(FullListing) /\ projectsGrid = <<>>)
    \/ (OpenProjectClick("p1") /\ projectNameInput = "" /\ openPending = <<>>)
    \/ \E i \in 1..MaxPending : OpenProjectResponse(i) /\ NoRepeat
    \/ \E answer \in BOOLEAN : DeleteClick(1, answer) /\ deletePending = <<>>
    \/ \E i \in 1..MaxPending : DeleteResponse(i) /\ NoRepeat

SpecOps == Init /\ [][OpsNext]_vars

\* The download of a model: the pull request, the poll loop and its ceiling.
\* A pull fails only as the first of the run, and a further loop is started
\* before the loops that run have polled.
PollNext ==
    \/ \E modelName \in ModelNames : DownloadClick(modelName)
    \/ \E i \in 1..MaxLoops : PullResponse(i, TRUE) /\ \A l \in 1..Len(loops) : loops[l].polls = 0
    \/ \E i \in 1..MaxLoops : PullResponse(i, FALSE) /\ log = <<>>
    \/ \E i \in 1..MaxLoops : PullFailure(i) /\ log = <<>>
    \/ \E l \in 1..MaxLoops : PollTick(l)
    \/ \E l \in 1..MaxLoops, names \in ModelListings : PollAnswer(l, names)
    \/ \E l \in 1..MaxLoops : CeilingTimer(l)
    \/ TimePasses

SpecPoll == Init /\ [][PollNext]_vars

\* The frames of the runs that are about the start control.
StartFrames ==
    { LogFrame("Developer", TextOk, "error"),
      FinalFrame(TextDone, "/out"),
      OtherFrame("progress") }

\* The start control: the operator starts runs while the connection opens,
\* is lost and comes back, frames arrive, and the start requests settle.
StartNext ==
    \/ \E s \in Slots : SocketOpen(s)
    \/ \E s \in Slots : SocketClose(s)
    \/ \E i \in 1..MaxSlots : ReconnectTimer(i)
    \/ \E s \in Slots, data \in StartFrames : SocketMessage(s, data)
    \/ TypeObjective(<< " ", "o" >>)
    \/ StartClick
    \/ \E p \in ProjectIds : StartResponse(p)
    \/ StartResponseNoId
    \/ StartFailure

SpecStart == Init /\ [][StartNext]_vars

\* The frames of the runs that are about the bound project.
BindFrames == { LogFrame("Research", TextOk, Absent), FinalFrame(TextDone, "/out") }

\* No request of the catalog is in flight.
CatalogQuiet == listPending = 0 /\ openPending = <<>> /\ deletePending = <<>>

\* The bound project: runs are started and their requests settle while the
\* connection is lost and comes back, frames arrive, the operator submits
\* guidance, and the catalog is refreshed, a project opened and one deleted.
\* The run is a short one: the server names the first run p1 and the next
\* p2, one start request is in flight at a time, the operator sends one
\* guidance frame, the connection is lost once, and the operator turns to
\* the catalog before guidance is sent and while no start is in flight.
BindNext ==
    \/ \E s \in Slots : SocketOpen(s)
    \/ \E s \in Slots : SocketFail(s) /\ NoRepeat /\ CatalogQuiet
    \/ \E i \in 1..MaxSlots : ReconnectTimer(i)
    \/ \E s \in Slots, data \in BindFrames : SocketMessage(s, data) /\ NoRepeat /\ CatalogQuiet
    \/ (TypeGuidance(<< " ", "g", " ", "f", " " >>) /\ sent = <<>> /\ CatalogQuiet)
    \/ (sendGuidance /\ sent = <<>> /\ CatalogQuiet)
    \/ TypeObjective(<< " ", "o" >>)
    \/ (StartClick /\ startPending = 0 /\ CatalogQuiet)
    \/ (StartResponse("p1") /\ Falsy(currentProjectId))
    \/ (StartResponse("p2") /\ currentProjectId = "p1")
    \/ (StartResponseNoId /\ NoRepeat)
    \/ (StartFailure /\ NoRepeat)
    \/ (SwitchView("projects") /\ startPending = 0 /\ sent = <<>> /\ listPending = 0)
    \/ ListResponse(FullListing)
    \/ (OpenProjectClick("p1") /\ projectNameInput = "" /\ startPending = 0 /\ sent = <<>>)
    \/ \E i \in 1..MaxPending : OpenProjectResponse(i) /\ NoRepeat
    \/ (DeleteClick(1, TRUE) /\ deletePending = <<>> /\ startPending = 0 /\ sent = <<>>)
    \/ \E i \in 1..MaxPending : DeleteResponse(i) /\ NoRepeat

SpecBind == Init /\ [][BindNext]_vars

\* The text of Scenario B, and texts of n letters, each letter once.
WritingMainPy ==
    << "W", "r", "i", "t", "i", "n", "g", " ", "m", "a", "i", "n", ".", "p", "y" >>
Letters(n) == SubSeq(Lower, 1, n)

\* Log frames of the Developer with texts around the display budget.
SummaryFrames ==
    { LogFrame("Developer", Letters(n), "waiting") : n \in { 0, 1, 17, 18, 19, 20, 21, 22, 26 } }
        \cup { LogFrame("Developer", WritingMainPy, "active") }

\* The board while log frames with short and long texts arrive on an open
\* connection.
SummaryNext ==
    \/ \E s \in Slots : SocketOpen(s)
    \/ \E s \in Slots, data \in SummaryFrames : SocketMessage(s, data)

SpecSummary == Init /\ [][SummaryNext]_vars

\* A text of 31 characters.
Text31 == Letters(26) \o Letters(5)

\* The frames of the runs of the earlier console: log frames for cards it
\* has, for an agent it has no card for, and for a name that Object.prototype
\* has; a final_output frame, a frame of another type and text that is not JSON.
CardFrames ==
    { LogFrame("Developer", TextOk, Absent),
      LogFrame("QA Tester", Text31, "error"),
      LogFrame("Research", TextOk, Absent),
      LogFrame("constructor", TextOk, Absent),
      FinalFrame(TextDone, Absent),
      OtherFrame("progress"),
      NotJSON }

\* The earlier console: its connection with the fixed retry delay, and its
\* message events.
CardsNext ==
    \/ \E s \in Slots : CardsOpen(s)
    \/ \E s \in Slots : CardsClose(s)
    \/ \E i \in 1..MaxSlots : CardsRetry(i)
    \/ \E s \in Slots, data \in CardFrames : CardsMessage(s, data)

SpecCards == Init /\ [][CardsNext]_vars

\* Everything the console sets a timer for: the reconnects of the connection
\* and the poll loop of a download.
TimersNext ==
    \/ \E s \in Slots : SocketOpen(s)
    \/ \E s \in Slots : SocketClose(s)
    \/ \E i \in 1..MaxSlots : ReconnectTimer(i)
    \/ DownloadClick(<< "m", Colon, "1" >>)
    \/ \E i \in 1..MaxLoops : PullResponse(i, TRUE)
    \/ \E l \in 1..MaxLoops : PollTick(l)
    \/ \E l \in 1..MaxLoops, names \in ModelListings : PollAnswer(l, names)
    \/ \E l \in 1..MaxLoops : CeilingTimer(l)
    \/ TimePasses

SpecTimers == Init /\ [][TimersNext]_vars

\* The connection manager under the scheduling the event loop gives: a pending
\* timer fires.
SpecLive == Spec /\ WF_vars(\E i \in 1..MaxSlots : ReconnectTimer(i))

\* ------------------------------------------------------------ properties
Live(state) == state \in { "CONNECTING", "OPEN", "CLOSING" }
Lost(s) == socks[s] \in { "CONNECTING", "OPEN" } /\ socks'[s] \notin { "CONNECTING", "OPEN", "CLOSING" }

\* C1: a loss with attempt count n schedules the reconnect after
\* min(3000 * 2^n, 30000) ms; the delay never exceeds 30000 and no smaller
\* attempt count gives a larger delay.
C1_ReconnectDelay ==
    [][ Len(timers') > Len(timers) =>
          LET n == reconnectAttempts
              d == timers'[Len(timers')]
          IN /\ d = (IF 3000 * 2^n <= 30000 THEN 3000 * 2^n ELSE 30000)
             /\ d <= 30000
             /\ \A m \in 0..n : ReconnectDelay(m) <= d ]_vars

\* C1 witness: a reconnect is pending with the capped delay, after seven losses.
C1_Witness == timers = << 30000 >> /\ reconnectAttempts = 7

\* C2: an open event leaves the attempt counter at 0, and the first loss of an
\* open connection schedules its reconnect after 3000 ms.
C2_ResetOnOpen ==
    [][ /\ \A s \in Slots :
              socks[s] = "CONNECTING" /\ socks'[s] = "OPEN" => reconnectAttempts' = 0
        /\ \A s \in Slots :
              socks[s] = "OPEN" /\ socks'[s] # "OPEN" => timers' = Append(timers, 3000) ]_vars

\* C2 witness: a connection that opened after a failed attempt was lost, and its
\* reconnect waits 3000 ms.
C2_Witness ==
    /\ Len(log) = 3
    /\ log[3].text = Disconnected
    /\ log[2].text = Connected
    /\ log[1].text = Disconnected
    /\ timers = << 3000 >>
    /\ reconnectAttempts = 1

\* C3: the losses since the last open were given the delays 3000, 6000, 12000,
\* 24000 and 30000 from the fifth on, and each raised the counter by one.
C3_BackoffRun ==
    /\ reconnectAttempts = Len(lossRun)
    /\ \A i \in 1..Len(lossRun) :
          lossRun[i] = CASE i = 1 -> 3000
                         [] i = 2 -> 6000
                         [] i = 3 -> 12000
                         [] i = 4 -> 24000
                         [] OTHER -> 30000

\* C3 witness: six losses in a row.
C3_Witness == Len(lossRun) = 6 /\ lossRun[5] = 30000 /\ lossRun[6] = 30000

\* C4: the live connections and the pending reconnect timers are exactly one
\* in all.
C4_OneConnection ==
    Cardinality({ s \in Slots : Live(socks[s]) }) + Len(timers) = 1

\* C4 witness: a reconnect timer has fired after a loss and its connection is open.
C4_Witness ==
    /\ Len(log) = 2
    /\ log[2].text = Disconnected
    /\ log[1].text = Connected
    /\ socks[socket] = "OPEN"
    /\ timers = <<>>

\* C5: a failing connection, connecting or open, arms exactly one reconnect
\* timer, raises the counter by exactly one and is left closed.
C5_ErrorSchedulesOnce ==
    [][ op' = "error" /\ (\E s \in Slots : Lost(s)) =>
          /\ Len(timers') = Len(timers) + 1
          /\ reconnectAttempts' = reconnectAttempts + 1
          /\ \A s \in Slots : socks'[s] # "CLOSING" ]_vars

\* C5 witness: an open connection has failed.
C5_Witness ==
    /\ op = "error"
    /\ Len(log) >= 2
    /\ log[1].text = Disconnected
    /\ log[2].text = Connected
    /\ Len(timers) = 1
    /\ reconnectAttempts = 1

\* C6: a closed connection always has a reconnect pending, and a new
\* connection attempt follows every loss.
C6_AlwaysReconnects ==
    /\ [](socks[socket] = "CLOSED" => timers # <<>>)
    /\ (socks[socket] = "CLOSED") ~> (socks[socket] = "CONNECTING")

\* C6 witness: a new attempt is under way after nine losses in a row.
C6_Witness == socks[socket] = "CONNECTING" /\ reconnectAttempts = 9

\* The field holds nothing but whitespace.
Blank(s) == \A i \in 1..Len(s) : s[i] = " "

\* t is s without its leading and trailing whitespace.
Trimmed(s, t) ==
    \E i, j \in 1..Len(s) :
        /\ t = SubSeq(s, i, j)
        /\ s[i] # " " /\ s[j] # " "
        /\ \A k \in 1..Len(s) : (k < i \/ k > j) => s[k] = " "

OpenedNotices == { "Opened project: " \o project.name : project \in ServerProjects }

\* C7: a submit while the connection is not open, or with no project bound,
\* sends no frame and leaves the input buffer as it is.
C7_SubmitNeedsOpenConnection ==
    [][ op' = "sendGuidance" /\ (socket = 0 \/ socks[socket] # "OPEN" \/ Falsy(currentProjectId)) =>
          sent' = sent /\ guidanceInput' = guidanceInput ]_vars

\* C8: a submit of blank text, or with no project bound, sends no frame and
\* leaves the input buffer, the bound project and the connection as they are.
C8_BlankOrUnboundIsNoOp ==
    [][ op' = "sendGuidance" /\ (Blank(guidanceInput) \/ Falsy(currentProjectId)) =>
          UNCHANGED << sent, guidanceInput, currentProjectId, socks, socket >> ]_vars

\* C8 witness: a blank field was submitted on an open connection with a project bound.
C8_Witness ==
    /\ op = "sendGuidance"
    /\ guidanceInput = << " " >>
    /\ currentProjectId \in ProjectIds
    /\ socks[socket] = "OPEN"
    /\ sent = <<>>

\* C9: a submit of non-blank text on an open connection with project p bound
\* appends exactly one frame {guidance, p, trimmed text} on the current
\* connection and empties the input buffer; nothing else ever sends a frame.
C9_SubmitSendsOneFrame ==
    [][ /\ op' = "sendGuidance" /\ ~Blank(guidanceInput) /\ socket # 0
           /\ socks[socket] = "OPEN" /\ ~Falsy(currentProjectId) =>
              /\ Len(sent') = Len(sent) + 1
              /\ SubSeq(sent', 1, Len(sent)) = sent
              /\ sent'[Len(sent')].type = "guidance"
              /\ sent'[Len(sent')].projectId = currentProjectId
              /\ sent'[Len(sent')].sock = socket
              /\ Trimmed(guidanceInput, sent'[Len(sent')].text)
              /\ guidanceInput' = <<>>
        /\ op' # "sendGuidance" => sent' = sent ]_vars

\* C9 witness: " g f " was submitted for p1 and went out as "g f".
C9_Witness ==
    /\ op = "sendGuidance"
    /\ Len(sent) = 1
    /\ sent[1].text = << "g", " ", "f" >>
    /\ sent[1].projectId = "p1"
    /\ guidanceInput = <<>>

\* C10 as claimed: openProject binds the opened project, so a submit of
\* non-blank text on an open connection right after a project was opened
\* sends a frame carrying that project's id.
C10_OpenBindsProject ==
    [][ \A project \in ServerProjects :
          /\ op' = "sendGuidance" /\ ~Blank(guidanceInput) /\ socks[socket] = "OPEN"
          /\ log # <<>> /\ log[1].text = "Opened project: " \o project.name
          => /\ Len(sent') = Len(sent) + 1
             /\ sent'[Len(sent')].projectId = project.path ]_vars

\* C10 as the code has it: openProject leaves the bound project id as it is,
\* and a submit in a session where no run has bound a project sends nothing.
C10_OpenLeavesBinding ==
    [][ /\ (Len(log') = Len(log) + 1 /\ log'[1].text \in OpenedNotices)
              => currentProjectId' = currentProjectId
        /\ (op' = "sendGuidance" /\ currentProjectId = "null") => sent' = sent ]_vars

\* C10 witness: with the connection open and a project just opened, but no run
\* started, a submit of " g f " has sent nothing.
C10_Witness ==
    /\ op = "sendGuidance"
    /\ log # <<>> /\ log[1].text \in OpenedNotices
    /\ socks[socket] = "OPEN"
    /\ guidanceInput = << " ", "g", " ", "f", " " >>
    /\ currentProjectId = "null"
    /\ startPending = 0 /\ ~startDisabled
    /\ sent = <<>>

\* ------------------------------------------------------ agent status board
\* The status values a log frame can carry, the absent one included.
StatusValues == { "error", "waiting", "complete", "active", "idle", "paused", Absent }

\* The visual state the status table gives for a status.
TableState(status) ==
    IF status = "error" THEN "error"
    ELSE IF status = "waiting" THEN "waiting"
    ELSE IF status = "complete" THEN "idle"
    ELSE "active"

\* A message event that handled a log frame.
LogHandled == op' = "message" /\ lastFrame'.type = "log"

\* C11: a log event on a known agent leaves that agent's LED with exactly the
\* state the table gives for the event's status, whatever the LED showed
\* before: error for "error", waiting for "waiting", idle for "complete",
\* active for an absent or any other status. This holds for the frames that
\* are handled and for every status applied to every reachable LED.
C11_StateFromStatus ==
    /\ [][ (LogHandled /\ lastFrame'.agent \in KnownAgents)
             => leds'[agentToLedId(lastFrame'.agent)].classes
                   = { TableState(lastFrame'.status) } ]_vars
    /\ [](\A id \in LedElements, status \in StatusValues :
             LedClasses(leds[id].classes, status) = { TableState(status) })

\* C11 witness: the Developer LED was in error (the "ok" frame, still second in
\* the feed) and the waiting frame has just put it in waiting.
C11_Witness ==
    /\ op = "message"
    /\ lastFrame = LogFrame("Developer", TextLong, "waiting")
    /\ Len(log) >= 2
    /\ log[2].agent = "Developer" /\ log[2].text = TextOk
    /\ leds["led-developer"].classes = { "waiting" }

\* C12: a log frame naming an agent outside the known set is handled without an
\* exception, leaves every LED (state classes and action text) as it was, and
\* its entry is prepended to the activity feed.
C12_UnknownAgentDropped ==
    [][ (lastFrame'.type = "log" /\ lastFrame'.agent \notin KnownAgents)
          => /\ op' = "message"
             /\ leds' = leds
             /\ log' = << [agent |-> lastFrame'.agent, text |-> lastFrame'.text] >> \o log ]_vars

\* C12 witness: the frame of the unknown agent "Intruder" has been handled
\* while the Developer LED shows an error; its entry heads the feed.
C12_Witness ==
    /\ op = "message"
    /\ lastFrame = LogFrame("Intruder", TextOk, "error")
    /\ leds["led-developer"] = [classes |-> { "error" }, action |-> TextOk]
    /\ log[1] = [agent |-> "Intruder", text |-> TextOk]

\* C13: handling a final_output frame leaves every LED with the single state
\* class idle and the action text "Idle", passes the frame's text and
\* outputPath to showFinalOutput (whose modal then shows the text), and leaves
\* the start button enabled.
C13_FinalOutputResets ==
    [][ lastFrame'.type = "final_output"
          => /\ op' = "message"
             /\ \A id \in LedElements : leds'[id] = [classes |-> { "idle" }, action |-> Idle]
             /\ shown' = [text |-> lastFrame'.text, outputPath |-> lastFrame'.outputPath]
             /\ outputModal' = [hidden |-> FALSE, text |-> lastFrame'.text]
             /\ startDisabled' = FALSE ]_vars

\* C13 witness: a final_output frame has been handled while a start request
\* was in flight (the button was disabled) and after the Developer LED had
\* been put in error; the LED is idle again, the button enabled.
C13_Witness ==
    /\ op = "message"
    /\ lastFrame = FinalFrame(TextDone, "/out")
    /\ startPending = 1 /\ ~startDisabled
    /\ log[1] = [agent |-> "Developer", text |-> TextOk]
    /\ leds["led-developer"] = [classes |-> { "idle" }, action |-> Idle]
    /\ shown = [text |-> TextDone, outputPath |-> "/out"]

\* C14: resetAgents is idempotent: applied to any reachable board, a second
\* application changes no LED's state classes or action text.
C14_ResetIdempotent == resetAgents(resetAgents(leds)) = resetAgents(leds)

\* C14 witness: a board on which the reset acts: the Developer LED is waiting
\* with a truncated action text and the Research LED is active.
C14_Witness ==
    /\ leds["led-developer"].classes = { "waiting" }
    /\ leds["led-developer"].action = SubSeq(TextLong, 1, 18) \o << ".", ".", "." >>
    /\ leds["led-research"].classes = { "active" }
    /\ resetAgents(leds) # leds
    /\ resetAgents(leds) = InitialLeds

\* What a frame the console drops must leave alone: the board, the feed, the
\* start control, the bound project and the connection.
sessionState ==
    << leds, log, startDisabled, startPending, currentProjectId, outputModal, shown,
       fileTimers, socks, socket, reconnectAttempts, timers, backendOnline >>

\* C15: a decoded frame whose type is neither "log" nor "final_output", a
\* frame without a type included, is handled without an exception and changes
\* nothing: LEDs, activity feed, start control, bound project id and
\* connection stay as they were.
C15_OtherTypeIgnored ==
    [][ (lastFrame'.json /\ lastFrame'.type \notin { "log", "final_output", "none" })
          => /\ op' = "message"
             /\ UNCHANGED sessionState ]_vars

\* C15 witness: a frame without a type has been handled while the Developer LED
\* shows an error and the start button is disabled; both are as before.
C15_Witness ==
    /\ op = "message"
    /\ lastFrame = OtherFrame(Absent)
    /\ leds["led-developer"] = [classes |-> { "error" }, action |-> TextOk]
    /\ startDisabled /\ startPending = 1
    /\ socks[socket] = "OPEN"

\* C16: a frame that JSON.parse rejects ends its message event with the
\* exception and nothing else: no LED, feed entry or start-control state
\* changes, no socket changes its readyState, no reconnect timer is armed, and
\* every socket that is open afterwards still takes the next frame.
C16_DecodeFailureDropped ==
    /\ [][ (lastFrame' # NoFrame /\ ~lastFrame'.json)
             => /\ op' = "threw"
                /\ UNCHANGED sessionState ]_vars
    /\ [](op = "threw" =>
             \A s \in Slots : socks[s] = "OPEN"
                 => ENABLED SocketMessage(s, FinalFrame(TextDone, "/out")))

\* C16 witness: text that is not JSON has arrived on the open connection while
\* the Research LED is active and a run is starting; the connection is still
\* open, no timer is pending.
C16_Witness ==
    /\ op = "threw"
    /\ lastFrame = NotJSON
    /\ socks[socket] = "OPEN"
    /\ timers = <<>>
    /\ leds["led-research"] = [classes |-> { "active" }, action |-> TextOk]
    /\ startDisabled

\* The feed has an entry of agent a.
InFeed(a) == \E i \in 1..Len(log) : log[i].agent = a

\* The position of the newest feed entry of agent a.
Newest(a) == CHOOSE i \in 1..Len(log) : log[i].agent = a /\ \A j \in 1..(i - 1) : log[j].agent # a

\* C17: each message event runs to completion as one step; a handled log
\* frame puts its entry at the head of the feed and sets its agent's LED; no
\* step of a run without a clear reorders or drops entries, so the feed lists
\* the frames newest first; and every known agent with an entry in the feed
\* shows what the newest of its frames set, unless a final_output has reset it
\* since.
C17_FeedInArrivalOrder ==
    /\ [][ /\ LogHandled
              => /\ log' = << [agent |-> lastFrame'.agent, text |-> lastFrame'.text] >> \o log
                 /\ lastFrame'.agent \in KnownAgents
                      => leds'[agentToLedId(lastFrame'.agent)]
                            = [classes |-> { TableState(lastFrame'.status) },
                               action |-> ActionText(lastFrame'.text)]
           /\ log' = log \/ (log' # <<>> /\ Tail(log') = log) ]_vars
    /\ [](\A a \in KnownAgents :
             InFeed(a) =>
                \/ leds[agentToLedId(a)] = [classes |-> { "idle" }, action |-> Idle]
                \/ \E f \in LogFrames :
                      /\ f.agent = a /\ f.text = log[Newest(a)].text
                      /\ leds[agentToLedId(a)] = [classes |-> { TableState(f.status) },
                                                  action |-> ActionText(f.text)])

\* C17 witness: after the open notice three log frames were handled: Developer
\* "ok" (error), Developer with the long text (waiting), Research "ok"; the
\* feed lists them newest first and each LED shows its agent's last frame.
C17_Witness ==
    /\ Len(log) = 4
    /\ log[4].agent = "System"
    /\ log[3] = [agent |-> "Developer", text |-> TextOk]
    /\ log[2] = [agent |-> "Developer", text |-> TextLong]
    /\ log[1] = [agent |-> "Research", text |-> TextOk]
    /\ leds["led-developer"].classes = { "waiting" }
    /\ leds["led-developer"].action = ActionText(TextLong)
    /\ leds["led-research"] = [classes |-> { "active" }, action |-> TextOk]

\* ------------------------------------------------------ operator input
\* A submit of guidance the console rejects: blank text or no bound project.
GuidanceRejected == op' = "sendGuidance" /\ (Blank(guidanceInput) \/ Falsy(currentProjectId))

\* A click on the start button with an objective that is blank after trimming.
StartRejected == op' = "startClick" /\ Blank(objectiveInput)

\* C18 as claimed: every invalid operator input is rejected with a local
\* notice in the feed and without a request or a frame; a rejected start
\* leaves the start button enabled and the bound project id unchanged.
C18_InvalidInputNoticed ==
    [][ /\ StartRejected
              => /\ log' = << [agent |-> "System", text |-> "Please enter an objective"] >> \o log
                 /\ startPending' = startPending /\ sent' = sent
                 /\ startDisabled' = FALSE /\ currentProjectId' = currentProjectId
        /\ GuidanceRejected
              => /\ Len(log') = Len(log) + 1
                 /\ startPending' = startPending /\ sent' = sent ]_vars

\* C18 as the code has it: a start with a blank objective is rejected with the
\* notice "Please enter an objective", issues no request and leaves the start
\* button enabled and the bound project id unchanged; guidance that is blank
\* or has no bound project is rejected silently: no notice, no frame, no
\* request, the field kept; and no start request is ever issued for a blank
\* objective.
C18_InvalidInputRejected ==
    [][ /\ StartRejected
              => /\ log' = << [agent |-> "System", text |-> "Please enter an objective"] >> \o log
                 /\ startPending' = startPending /\ sent' = sent
                 /\ startDisabled' = FALSE /\ currentProjectId' = currentProjectId
        /\ GuidanceRejected
              => /\ log' = log
                 /\ startPending' = startPending /\ sent' = sent
                 /\ guidanceInput' = guidanceInput
        /\ startPending' > startPending => ~Blank(objectiveInput) ]_vars

\* C18 witness: on an open connection a click on start with the objective " "
\* has just been rejected with the notice: no request in flight, the button
\* enabled, no project bound, the typed guidance still in its field.
C18_Witness ==
    /\ op = "startClick"
    /\ objectiveInput = << " " >>
    /\ log[1].text = "Please enter an objective"
    /\ startPending = 0 /\ ~startDisabled
    /\ currentProjectId = "null"
    /\ guidanceInput = << " ", "g", " ", "f", " " >>
    /\ sent = <<>>
    /\ socks[socket] = "OPEN"

\* ------------------------------------------------------ catalog
\* Everything but the markers of the task that ran last.
consoleState ==
    << connVars, log, guideVars, startVars, formVars, openPending, leds, outputModal,
       shown, fileTimers, catalogVars >>

\* C20: a DELETE request goes out only in the task in which the operator
\* confirmed the dialog, and for the card that was clicked; a declined dialog
\* sends nothing and changes nothing; and the task that runs when the DELETE
\* has been answered puts one more GET /projects in flight.
C20_DeleteNeedsConfirmation ==
    [][ /\ Len(deletePending') > Len(deletePending)
              => /\ op' = "deleteConfirmed"
                 /\ \E i \in 1..Len(projectsGrid) :
                        deletePending' = Append(deletePending, projectsGrid[i])
        /\ op' = "deleteDeclined" => UNCHANGED consoleState
        /\ op' = "deleteDone"
              => /\ Len(deletePending') = Len(deletePending) - 1
                 /\ listPending' = listPending + 1 ]_vars

\* C20 witness: the first listing showed both projects, the operator confirmed
\* a delete, the DELETE has been answered: the notice heads the feed and the
\* refresh is in flight, the cards still as they were listed.
C20_Witness ==
    /\ op = "deleteDone"
    /\ log[1].text = "Project deleted"
    /\ projectsGrid = << "p1", "p2" >>
    /\ deletePending = <<>>
    /\ listPending = 1

\* C19: an LED changes, in its state classes or its action text, only in a
\* message event that handles a log frame naming its agent or a final_output
\* frame. So the open, the loss and the reconnect timer of the connection, a
\* guidance submit, the clearing of the feed, the start of a run and the
\* catalog tasks leave every LED as it was, and a log frame leaves the LEDs
\* of all other agents as they were.
C19_StatusOnlyFromEvents ==
    [][ \A id \in LedElements :
          leds'[id] # leds[id]
             => /\ op' = "message"
                /\ \/ lastFrame'.type = "log" /\ agentToLedId(lastFrame'.agent) = id
                   \/ lastFrame'.type = "final_output" ]_vars

\* C19 witness: a project was opened, a run started, the Developer LED put in
\* error, a guidance frame sent, and the feed has just been cleared: the LED
\* is as the frame left it, the others idle.
C19_Witness ==
    /\ op = "other"
    /\ log = << [agent |-> "System", text |-> "Activity feed cleared"] >>
    /\ leds["led-developer"] = [classes |-> { "error" }, action |-> TextOk]
    /\ leds["led-research"] = [classes |-> { "idle" }, action |-> Idle]
    /\ currentProjectId = "p1"
    /\ Len(sent) = 1

\* ------------------------------------------------------ catalog refresh
\* The task that ran rendered the listing GET /projects answered.
Listed == response'.of = "GET /projects" /\ response'.ok

\* The day of the last update of the project listed under a path.
UpdatedAt(projects, path) ==
    projects[CHOOSE k \in 1..Len(projects) : projects[k].path = path].updated_at

\* The items are those of listed projects, from the last updated to the first.
Ranked(projects, items) ==
    /\ \A i \in 1..Len(items) : \E k \in 1..Len(projects) : projects[k].path = items[i]
    /\ \A i, j \in 1..Len(items) :
          i < j => UpdatedAt(projects, items[i]) >= UpdatedAt(projects, items[j])

\* The catalog shows one card per listed project, in the order of the listing,
\* and no other; for an empty listing it shows the empty-state placeholder.
GridShows(projects) ==
    /\ projects = <<>> => projectsGrid' = << EmptyState >>
    /\ projects # <<>> =>
          /\ Len(projectsGrid') = Len(projects)
          /\ \A i \in 1..Len(projects) : projectsGrid'[i] = projects[i].path

CatalogFailed ==
    /\ response'.of \in { "GET /projects", "POST /projects/open", "DELETE /projects" }
    /\ ~response'.ok

\* The failure is visible: the catalog shows a placeholder, or an error notice
\* heads the feed.
Degraded ==
    \/ projectsGrid' = << EmptyState >>
    \/ /\ Len(log') = Len(log) + 1
       /\ log'[1].agent = "System"
       /\ log'[1].text \notin { "Project deleted" } \cup OpenedNotices

\* The failed request is gone and none of its kind was issued in its place.
NotRetried ==
    /\ response'.of = "GET /projects" => listPending' = listPending - 1
    /\ response'.of = "POST /projects/open" => Len(openPending') = Len(openPending) - 1
    /\ response'.of = "DELETE /projects" => Len(deletePending') = Len(deletePending) - 1

\* C22: when a refresh, an open or a delete fails, the failure shows as a
\* placeholder or an error notice, and the request is not issued again.
C22_FailureDegradesVisibly ==
    [][ CatalogFailed => Degraded /\ NotRetried ]_vars

\* ------------------------------------------------------ model download
\* The model of loop l is among the names the list shows after the step.
Seen(l) == Downloaded(modelList', loops[l].model)

\* C23: every poll loop cancels itself. A poll runs only while the interval is
\* active and the ceiling timer has not fired; the interval is cleared only by
\* a poll that finds the model in the list or by the ceiling timer, and is not
\* set again; the ceiling timer clears it when it fires, 300000 ms after the
\* start, whether the model has appeared or not; so a loop runs at most 60
\* polls, 5000 ms apart.
C23_PollSelfCancels ==
    /\ [](\A l \in 1..Len(loops) :
             /\ loops[l].polls <= 60
             /\ loops[l].polls * 5000 <= loops[l].elapsed
             /\ ~loops[l].ceiling => ~loops[l].interval /\ loops[l].elapsed >= 300000)
    /\ [][ \A l \in 1..Len(loops) :
             /\ loops'[l].polls # loops[l].polls
                  => /\ loops'[l].polls = loops[l].polls + 1
                     /\ loops[l].interval /\ loops[l].ceiling
                     /\ loops[l].elapsed <= 300000
             /\ (loops[l].interval /\ ~loops'[l].interval)
                  => (Seen(l) \/ (loops[l].ceiling /\ ~loops'[l].ceiling))
             /\ ~loops[l].interval => ~loops'[l].interval ]_vars

\* C23 witness: the model never appeared in the list; the loop ran its 60
\* polls and the ceiling timer has stopped it.
C23_Witness ==
    /\ Len(loops) = 1
    /\ loops[1].polls = 60
    /\ loops[1].inflight = 0
    /\ ~loops[1].interval /\ ~loops[1].ceiling
    /\ modelList = << << "n", Colon, "1" >> >>
    /\ \A i \in 1..Len(log) : log[i].text # "Model downloaded successfully!"

\* ------------------------------------------------------ teardown
\* A timer of the session is pending: a reconnect, an interval or a ceiling.
TimerPending ==
    \/ timers # <<>>
    \/ \E l \in 1..Len(loops) : loops[l].interval \/ loops[l].ceiling

\* The session is closed: no timer is pending and no connection is alive, so
\* no timer fires and no connection is created from here on.
TornDown == ~TimerPending /\ \A s \in Slots : ~Live(socks[s])

\* C24: the session can be closed by one operation: whatever timers are
\* pending, one task of the console leaves the session closed, without
\* creating a connection.
C24_TeardownCancelsTimers ==
    [](TimerPending =>
          ENABLED (/\ TimersNext
                   /\ TornDown'
                   /\ \A s \in Slots : socks'[s] = "CONNECTING" => socks[s] = "CONNECTING"))

\* ------------------------------------------------------ action summary
\* C25: a log frame for a known agent replaces the agent's action summary by
\* the frame's text cut for display: a text of at most 20 characters is shown
\* as it is, a longer one as its first 18 characters followed by "...", so
\* the summary never has more than 21 characters; "Writing main.py" with
\* status active leaves the Developer LED active with that summary.
C25_SummaryTruncated ==
    [][ (LogHandled /\ lastFrame'.agent \in KnownAgents) =>
          LET text == lastFrame'.text
              summary == leds'[agentToLedId(lastFrame'.agent)].action
          IN /\ Len(text) <= 20 => summary = text
             /\ Len(text) > 20 =>
                   /\ Len(summary) = 21
                   /\ \A i \in 1..18 : summary[i] = text[i]
                   /\ \A i \in 19..21 : summary[i] = "."
             /\ Len(summary) <= 21
             /\ lastFrame' = LogFrame("Developer", WritingMainPy, "active")
                   => leds'["led-developer"] = [classes |-> { "active" }, action |-> WritingMainPy] ]_vars

\* C25 witness: a text of 20 letters was shown whole (its entry is second in
\* the feed), then a text of 21 letters has been cut to 18 letters and "...".
C25_Witness ==
    /\ op = "message"
    /\ Len(log) >= 2
    /\ log[2] = [agent |-> "Developer", text |-> Letters(20)]
    /\ lastFrame = LogFrame("Developer", Letters(21), "waiting")
    /\ leds["led-developer"].action = Letters(18) \o << ".", ".", "." >>

\* ------------------------------------------------------ backend indicator
\* C26: the open event of a connection sets the indicator to Connected and
\* puts exactly one "Connected to Maestro backend" notice in the feed; the
\* loss of a connection sets it to Disconnected and puts exactly one
\* "Disconnected. Reconnecting..." notice in the feed; so the indicator shows
\* Connected only while the current connection has opened and its close
\* event has not been delivered.
C26_IndicatorTracksConnection ==
    /\ [](backendOnline => socket # 0 /\ socks[socket] \in { "OPEN", "CLOSING" })
    /\ [][ \A s \in Slots :
             /\ (socks[s] = "CONNECTING" /\ socks'[s] = "OPEN")
                  => /\ backendOnline'
                     /\ log' = << [agent |-> "System", text |-> Connected] >> \o log
             /\ (Live(socks[s]) /\ ~Live(socks'[s]))
                  => /\ ~backendOnline'
                     /\ log' = << [agent |-> "System", text |-> Disconnected] >> \o log ]_vars

\* C26 witness: the connection opened, was lost and has opened again: the
\* indicator shows Connected for the second connection.
C26_Witness ==
    /\ backendOnline
    /\ Len(log) = 3
    /\ log[3].text = Connected
    /\ log[2].text = Disconnected
    /\ log[1].text = Connected
    /\ socks[socket] = "OPEN"

\* --------------------------------------------------------- start control
\* A message event has just been handled as a final_output frame.
FinalHandled == op = "message" /\ lastFrame.json /\ lastFrame.type = "final_output"

\* A POST /start has just failed: fetch rejected, the body was not JSON, or it
\* carried no projectId.
StartFailed ==
    /\ response.of = "POST /start"
    /\ ~response.ok \/ response.projectId = "undefined"

\* C27: at most one POST /start is in flight at any time, whatever the order
\* of start clicks, final_output frames and start responses.
C27_OneStartInFlight == startPending <= 1

\* C28: the start control that a start has disabled becomes enabled only in
\* a step that handles a final_output frame or in which that start request,
\* the one issued last, fails: not on connection loss or reconnection, not
\* on a log frame or a frame of another type, not on a start response that
\* carries a projectId, and not when another start request fails.
C28_ReenabledOnlyByFinalOrFailure ==
    [][ (startDisabled /\ ~startDisabled')
            => \/ FinalHandled'
               \/ StartFailed' /\ response'.request = startPending ]_vars

\* ---------------------------------------------------- bound project id
\* A response to POST /start has just been read.
StartRead == response.of = "POST /start" /\ response.ok

\* C29: currentProjectId changes only in a step that reads a response to
\* POST /start, and in such a step it becomes the projectId of that response
\* (undefined when the response has none); losing and reopening the
\* connection, log and final_output frames, guidance submits, and opening,
\* deleting and listing projects leave it as it is, and every guidance frame
\* that is sent carries the id that is bound at that moment.
C29_BoundOnlyByStartResponse ==
    [][ /\ currentProjectId' # currentProjectId => StartRead'
        /\ StartRead' => currentProjectId' = response'.projectId
        /\ op' \in { "error", "message", "sendGuidance", "deleteDone" }
              => currentProjectId' = currentProjectId
        /\ Len(sent') > Len(sent)
              => sent'[Len(sent')].projectId = currentProjectId ]_vars

\* C29 witness: two responses to POST /start have been read, p1 and then p2,
\* and the guidance frame sent after them carries p2.
C29_Witness ==
    /\ Len(sent) = 1
    /\ sent[1].projectId = "p2"
    /\ currentProjectId = "p2"
    /\ startPending = 0
    /\ Len(log) >= 2 /\ log[1].text = "Project started" /\ log[2].text = "Project started"

\* ------------------------------------------------------- one visual state
\* The classes that are the visual states of an LED.
StateClasses == { "idle", "active", "waiting", "error" }

\* C30: whatever log and final_output frames have been handled, the LED of
\* every known agent carries exactly one of the state classes idle, active,
\* waiting and error: never two of them and never none.
C30_OneVisualState ==
    \A a \in KnownAgents :
        Cardinality(leds[agentToLedId(a)].classes \cap StateClasses) = 1

\* C30 witness: a final_output frame has reset the board, and log frames
\* have since put the Research LED in active and the Developer LED in
\* waiting: three different states are on the board, one on each LED.
C30_Witness ==
    /\ leds["led-developer"].classes = { "waiting" }
    /\ leds["led-research"].classes = { "active" }
    /\ leds["led-security"].classes = { "idle" }
    /\ ~outputModal.hidden
    /\ Len(log) >= 3
    /\ log[1].agent = "Developer" /\ log[1].text = TextLong

\* ------------------------------------------- one active card (part_000)
\* The cards that carry the active mark.
ActiveCards(cards) == { id \in CardElements : cards[id].active }

\* C31: in the earlier console at most one agent card is marked active in
\* every reachable state; handling a log frame leaves the mark on the card of
\* the named agent alone when the console has a card for it, and on no card
\* otherwise; handling a final_output frame leaves no card marked and every
\* status text "Idle".
C31_OneActiveCard ==
    /\ [](Cardinality(ActiveCards(agentCards)) <= 1)
    /\ [][ (lastFrame'.json /\ lastFrame'.type = "log")
             => ActiveCards(agentCards')
                   = IF CardOf(lastFrame'.agent) \in CardElements
                     THEN { CardOf(lastFrame'.agent) }
                     ELSE {} ]_vars
    /\ [][ (lastFrame'.json /\ lastFrame'.type = "final_output")
             => \A id \in CardElements :
                   agentCards'[id] = [active |-> FALSE, status |-> Idle] ]_vars

\* C31 witness: the Developer card was marked by a log frame, and a log frame
\* for the QA Tester has moved the mark: the QA card is the only active one
\* and shows the text cut to 27 characters, the Developer card keeps its text.
C31_Witness ==
    /\ lastFrame = LogFrame("QA Tester", Text31, "error")
    /\ ActiveCards(agentCards) = { "agent-qa" }
    /\ agentCards["agent-qa"].status = SubSeq(Text31, 1, 27) \o << ".", ".", "." >>
    /\ agentCards["agent-dev"].status = TextOk

====
